---- MODULE Spec2Model ----
(***************************************************************************)
(* Tabular report export engine of streamlit-db-app/src/app.py: the        *)
(* spreadsheet renderer (xlsxwriter calls recorded on a worksheet value),  *)
(* the paginated renderer (the list of flowables handed to doc.build) and  *)
(* the layout arithmetic both share.                                       *)
(*                                                                         *)
(* Strings are sequences of characters.  A Latin character is written as  *)
(* itself ("h", "/", "1"); an Arabic letter is written by its name ("ra",  *)
(* "alef", "ba", "tah" spell the hyperlink hint U+0631 U+0627 U+0628       *)
(* U+0637).  ArabicBlock lists the letters of U+0600..U+06FF in use.       *)
(* Floating-point quantities are exact rationals [n, d] in lowest terms.   *)
(***************************************************************************)
EXTENDS Integers, Sequences, FiniteSets, TLC

VARIABLES df, out

vars == <<df, out>>

(***************************************************************************)
(* Bounds of the model.                                                    *)
(***************************************************************************)
MaxCols == 2
MaxRows == 2
MaxCells == 2
MaxSummaryRows == 1

(***************************************************************************)
(* Float arithmetic, as exact rationals.                                   *)
(***************************************************************************)
RECURSIVE GCD(_, _)
GCD(a, b) == IF b = 0 THEN a ELSE GCD(b, a % b)

Abs(x) == IF x < 0 THEN 0 - x ELSE x

Rat(n, d) == LET g == GCD(Abs(n), d) IN [n |-> n \div g, d |-> d \div g]

RatInt(k) == [n |-> k, d |-> 1]

RatMul(a, b) ==
    LET g1 == GCD(Abs(a.n), b.d)
        g2 == GCD(Abs(b.n), a.d)
    IN  [n |-> (a.n \div g1) * (b.n \div g2), d |-> (a.d \div g2) * (b.d \div g1)]

RatDiv(a, b) == RatMul(a, [n |-> b.d, d |-> b.n])

RatAdd(a, b) ==
    LET l == (a.d \div GCD(a.d, b.d)) * b.d
    IN  Rat(a.n * (l \div a.d) + b.n * (l \div b.d), l)

RatLt(a, b) == a.n * b.d < b.n * a.d

RatLe(a, b) == a.n * b.d <= b.n * a.d

RatMax(a, b) == IF RatLt(a, b) THEN b ELSE a

RatMin(a, b) == IF RatLt(b, a) THEN b ELSE a

RatFloor(a) == a.n \div a.d

RECURSIVE RatSum(_)
RatSum(s) == IF s = <<>> THEN RatInt(0) ELSE RatAdd(s[1], RatSum(Tail(s)))

RECURSIVE SumSeq(_)
SumSeq(s) == IF s = <<>> THEN 0 ELSE s[1] + SumSeq(Tail(s))

RECURSIVE MaxOf(_)
MaxOf(s) == IF Len(s) = 1 THEN s[1]
            ELSE LET m == MaxOf(Tail(s)) IN IF m > s[1] THEN m ELSE s[1]

(***************************************************************************)
(* Strings.                                                                *)
(***************************************************************************)
ArabicBlock ==
    {"ra", "alef", "ba", "tah", "fa", "ta", "hah", "lam", "qaf", "ya", "meem", "shin", "kaf",
     "kha", "sad", "waw", "ain", "dal"}

LinkHint == <<"ra", "alef", "ba", "tah">>

LinkCaption == <<"fa", "ta", "hah", " ", "alef", "lam", "ra", "alef", "ba", "tah">>

HttpPrefix == <<"h", "t", "t", "p", ":", "/", "/">>

HttpsPrefix == <<"h", "t", "t", "p", "s", ":", "/", "/">>

startswith(s, p) == Len(s) >= Len(p) /\ SubSeq(s, 1, Len(p)) = p

Contains(s, p) ==
    \E i \in 1..(Len(s) + 1) :
        i + Len(p) - 1 <= Len(s) /\ SubSeq(s, i, i + Len(p) - 1) = p

IsUrl(s) == startswith(s, HttpPrefix) \/ startswith(s, HttpsPrefix)

looks_arabic(s) == \E i \in 1..Len(s) : s[i] \in ArabicBlock

Reverse(s) == [i \in 1..Len(s) |-> s[Len(s) + 1 - i]]

(***************************************************************************)
(* Cell values: None, float nan, NaT, str, float (in hundredths) and       *)
(* Timestamp (a date at midnight, s holds "YYYY-MM-DD").                   *)
(***************************************************************************)
NoneV == [k |-> "None", s |-> <<>>, v |-> 0]

NaN == [k |-> "nan", s |-> <<>>, v |-> 0]

NaT == [k |-> "NaT", s |-> <<>>, v |-> 0]

StrV(s) == [k |-> "str", s |-> s, v |-> 0]

FloatV(h) == [k |-> "float", s |-> <<>>, v |-> h]

TsV(d) == [k |-> "Timestamp", s |-> d, v |-> 0]

isna(val) == val.k \in {"None", "nan", "NaT"}

Digit(n) == <<"0", "1", "2", "3", "4", "5", "6", "7", "8", "9">>[n + 1]

RECURSIVE NatStr(_)
NatStr(n) == IF n < 10 THEN <<Digit(n)>> ELSE Append(NatStr(n \div 10), Digit(n % 10))

FloatStr(h) ==
    LET a == Abs(h)
        fr == a % 100
    IN  (IF h < 0 THEN <<"-">> ELSE <<>>) \o NatStr(a \div 100) \o <<".">>
        \o (IF fr % 10 = 0 THEN <<Digit(fr \div 10)>> ELSE <<Digit(fr \div 10), Digit(fr % 10)>>)

MidnightSuffix == <<" ", "0", "0", ":", "0", "0", ":", "0", "0">>

NumpyMidnightSuffix ==
    <<"T", "0", "0", ":", "0", "0", ":", "0", "0", ".",
      "0", "0", "0", "0", "0", "0", "0", "0", "0">>

\* str(val) of a scalar taken with df.iloc[i, j] or from a row of iterrows()
str(val) ==
    CASE val.k = "None" -> <<"N", "o", "n", "e">>
      [] val.k = "nan" -> <<"n", "a", "n">>
      [] val.k = "NaT" -> <<"N", "a", "T">>
      [] val.k = "str" -> val.s
      [] val.k = "float" -> FloatStr(val.v)
      [] val.k = "Timestamp" -> val.s \o MidnightSuffix

\* str(v) of an element of series.values (numpy scalars for typed columns)
str_of_values_item(val) ==
    IF val.k = "Timestamp" THEN val.s \o NumpyMidnightSuffix ELSE str(val)

\* element of df[c].astype(str)
astype_str(val) == IF val.k = "Timestamp" THEN val.s ELSE str(val)

(***************************************************************************)
(* Tables: a DataFrame is a sequence of columns, each with a name, a dtype *)
(* and one value per row.                                                  *)
(***************************************************************************)
ColumnNames == { <<"q", "t", "y">>, LinkHint }

UrlValue == HttpsPrefix \o <<"e", ".", "c", "o", "/", "d", "o", "c", "/", "1", "7">>

TextValue == <<"N", "/", "A">>

DateValue == <<"2", "0", "2", "4", "-", "0", "1", "-", "1", "5">>

Dtypes == {"object", "float64", "datetime64"}

ValuesOf(dtype) ==
    CASE dtype = "object" -> {NoneV, StrV(<<>>), StrV(UrlValue), StrV(TextValue)}
      [] dtype = "float64" -> {NaN, FloatV(150050)}
      [] dtype = "datetime64" -> {NaT, TsV(DateValue)}

ColumnsOf(names, dtypes, r) ==
    UNION { { [name |-> n, dtype |-> d, vals |-> vs] :
                n \in names, vs \in [1..r -> ValuesOf(d)] } : d \in dtypes }

TablesOf(names, dtypes, maxCols, maxRows, maxCells) ==
    UNION { { t \in [1..c -> ColumnsOf(names, dtypes, r)] :
                \A i, j \in 1..c : i # j => t[i].name # t[j].name } :
            <<c, r>> \in { p \in (1..maxCols) \X (0..maxRows) : p[1] * p[2] <= maxCells } }

Tables == TablesOf(ColumnNames, Dtypes, MaxCols, MaxRows, MaxCells)

SummaryTables == TablesOf(ColumnNames, {"float64"}, MaxCols, MaxSummaryRows, MaxCells)

\* "رقم الشيك", the check-number column of the ledger
CheckNumberName == <<"ra", "qaf", "meem", " ", "alef", "lam", "shin", "ya", "kaf">>

NumberColumnNames == { <<"q", "t", "y">>, CheckNumberName }

DigitsValue == <<"1", "2", "3", "4">>

PercentValue == <<"4", "5", "%">>

\* numbers as the ledger holds them: digit-only and percent text, 12345.0 and 1500.5
NumberValuesOf(dtype) ==
    CASE dtype = "object" -> {StrV(DigitsValue), StrV(PercentValue)}
      [] dtype = "float64" -> {FloatV(1234500), FloatV(150050)}

NumberColumns ==
    UNION { { [name |-> n, dtype |-> d, vals |-> vs] :
                n \in NumberColumnNames, vs \in [1..1 -> NumberValuesOf(d)] } :
            d \in {"object", "float64"} }

\* one-row tables of number columns
NumberTables ==
    UNION { { t \in [1..c -> NumberColumns] :
                \A i, j \in 1..c : i # j => t[i].name # t[j].name } : c \in 1..MaxCols }

AllTables == Tables \cup NumberTables

len(t) == Len(t[1].vals)

(***************************************************************************)
(* The assets directory and the runtime, as one export call finds them.    *)
(* logo: "absent" (no candidate is a non-empty file), "ok", or "corrupt"   *)
(* (a non-empty file no image library can decode).  pil: PIL imported.     *)
(* img: the intrinsic pixel size of an "ok" banner.  raises: whether the    *)
(* document library's image call raises on a corrupt banner: never, once   *)
(* (not when the handler calls it again) or always.                        *)
(***************************************************************************)
ImageSizes == { <<800, 200>> }

Assets ==
    { [logo |-> "absent", pil |-> TRUE, img |-> <<0, 0>>, raises |-> "never"] }
    \cup { [logo |-> "ok", pil |-> p, img |-> i, raises |-> "never"] :
              p \in BOOLEAN, i \in ImageSizes }
    \cup { [logo |-> "corrupt", pil |-> p, img |-> <<0, 0>>, raises |-> r] :
              p \in BOOLEAN, r \in {"never", "once", "always"} }

Engines == {"xlsxwriter", "openpyxl", "None"}

\* a lookup that reports a banner whatever the assets directory holds
_wide_logo_path_any(a) == TRUE

_wide_logo_path(a) == a.logo # "absent"

_image_size(a) == IF a.pil /\ a.logo = "ok" THEN a.img ELSE <<600, 120>>

\* a lookup that answers openpyxl when neither writer can be imported
_pick_excel_engine_openpyxl(engine) == IF engine = "None" THEN "openpyxl" ELSE engine

_pick_excel_engine(engine) == engine

(***************************************************************************)
(* Spreadsheet renderer.  A worksheet records the xlsxwriter calls made on *)
(* it; rows and columns are zero-based as in the code.                     *)
(***************************************************************************)
min(a, b) == IF b < a THEN b ELSE a

_estimate_col_widths_chars(t) ==
    [j \in 1..Len(t) |->
        min(60, MaxOf(<<Len(t[j].name)>>
                      \o [i \in 1..len(t) |-> Len(str_of_values_item(t[j].vals[i]))]) + 4)]

_chars_to_pixels(chars) == Rat(chars * 72, 10)

add_worksheet(name, via) ==
    [name |-> name, via |-> via, images |-> {}, row_h |-> {}, merges |-> {},
     cells |-> {}, col_w |-> {}, tables |-> {}]

set_row(ws, row, h) ==
    [ws EXCEPT !.row_h = {x \in @ : x.row # row} \cup {[row |-> row, h |-> h]}]

set_column(ws, col, w) ==
    [ws EXCEPT !.col_w = {x \in @ : x.col # col} \cup {[col |-> col, w |-> w]}]

insert_image(ws, row, col, x_scale, y_scale) ==
    [ws EXCEPT !.images = @ \cup {[row |-> row, col |-> col, x_scale |-> x_scale,
                                    y_scale |-> y_scale]}]

merge_range(ws, row, c0, c1, text) ==
    [ws EXCEPT !.merges = @ \cup {[row |-> row, c0 |-> c0, c1 |-> c1, text |-> text]}]

write_cell(ws, row, col, op, arg, string, fmt) ==
    [ws EXCEPT !.cells = {x \in @ : x.row # row \/ x.col # col}
                         \cup {[row |-> row, col |-> col, op |-> op, arg |-> arg,
                                 string |-> string, fmt |-> fmt]}]

\* lines 308-319: the banner placed at the scale computed from the table width
insert_scaled_logo(ws, start_row, a, img_h_px, x_scale) ==
    LET y_scale == x_scale
        scaled_h_px == RatMul(RatInt(img_h_px), y_scale)
    IN  IF a.raises = "never"
        THEN [ws |-> set_row(insert_image(ws, start_row, 0, x_scale, y_scale),
                             start_row, RatFloor(RatMul(scaled_h_px, Rat(3, 4)))),
              row |-> start_row + 1, raised |-> FALSE]
        ELSE IF a.raises = "once"
        THEN \* insert_image raised in the try block, not in the handler
             [ws |-> insert_image(set_row(ws, start_row, 80), start_row, 0,
                                  Rat(1, 2), Rat(1, 2)),
              row |-> start_row + 1, raised |-> FALSE]
        ELSE \* insert_image raises again in the handler, which nothing catches
             [ws |-> set_row(ws, start_row, 80), row |-> start_row, raised |-> TRUE]

\* lines 301-307: x_scale from the total table width and the image width
logo_x_scale(total_width_px, img_w) ==
    RatMax(Rat(1, 10),
           RatDiv(total_width_px, RatInt(IF img_w <= 0 THEN 1000 ELSE img_w)))

_insert_wide_logo(ws, t, start_row, a) ==
    IF ~_wide_logo_path(a)
    THEN [ws |-> ws, row |-> start_row, raised |-> FALSE]
    ELSE insert_scaled_logo(ws, start_row, a, _image_size(a)[2],
                            logo_x_scale(_chars_to_pixels(SumSeq(_estimate_col_widths_chars(t))),
                                         _image_size(a)[1]))

\* the test of line 342 that sends a cell to write_url
excel_is_link(colname, sval) ==
    IsUrl(sval) \/ (Contains(colname, LinkHint) /\ sval # <<>>)

\* the call the body loop makes for row i (1-based) of column j (1-based)
excel_body_cell(t, i, j, r0, c0) ==
    LET col == t[j]
        val == col.vals[i]
        colname == col.name
        sval == IF isna(val) THEN <<>> ELSE str(val)
        at == [row |-> r0 + i, col |-> c0 + j - 1]
    IN  IF excel_is_link(colname, sval)
        THEN at @@ [op |-> "write_url", arg |-> StrV(sval), string |-> LinkCaption,
                    fmt |-> "fmt_link"]
        ELSE IF col.dtype = "datetime64"
        THEN IF ~isna(val)
             THEN at @@ [op |-> "write_datetime", arg |-> val, string |-> <<>>,
                         fmt |-> "fmt_date"]
             ELSE at @@ [op |-> "write_blank", arg |-> NoneV, string |-> <<>>,
                         fmt |-> "fmt_text"]
        ELSE IF col.dtype = "float64"
        THEN IF ~isna(val)
             THEN at @@ [op |-> "write_number", arg |-> val, string |-> <<>>,
                         fmt |-> "fmt_num"]
             ELSE at @@ [op |-> "write_blank", arg |-> NoneV, string |-> <<>>,
                         fmt |-> "fmt_text"]
        ELSE at @@ [op |-> "write", arg |-> StrV(sval), string |-> <<>>, fmt |-> "fmt_text"]

excel_header_cell(t, j, r0, c0) ==
    [row |-> r0, col |-> c0 + j - 1, op |-> "write", arg |-> StrV(t[j].name),
     string |-> <<>>, fmt |-> "hdr_fmt"]

RECURSIVE set_columns(_, _, _, _)
set_columns(ws, widths, c0, j) ==
    IF j > Len(widths) THEN ws
    ELSE set_columns(set_column(ws, c0 + j - 1, widths[j]), widths, c0, j + 1)

\* lines 333-357: the header and body cells the two loops write
excel_table_cells(t, r0, c0) ==
    { excel_header_cell(t, j, r0, c0) : j \in 1..Len(t) }
    \cup { excel_body_cell(t, i, j, r0, c0) : i \in 1..len(t), j \in 1..Len(t) }

\* lines 333-364: the cells and the add_table range on the worksheet
write_table_cells(ws, t, r0, c0, written) ==
    [ws EXCEPT
       !.cells = { x \in @ : \A y \in written : x.row # y.row \/ x.col # y.col }
                 \cup written,
       !.tables = @ \cup {[r0 |-> r0, c0 |-> c0, r1 |-> r0 + len(t), c1 |-> c0 + Len(t) - 1,
                            columns |-> [j \in 1..Len(t) |-> t[j].name]]}]

_write_excel_table(ws, t, start_row, start_col) ==
    set_columns(write_table_cells(ws, t, start_row, start_col,
                                  excel_table_cells(t, start_row, start_col)),
                _estimate_col_widths_chars(t), start_col, 1)

\* df_x.to_excel(writer, index=False): pandas writes the header and the raw values
to_excel(ws, t) ==
    [ws EXCEPT !.cells =
        { [row |-> 0, col |-> j - 1, op |-> "to_excel", arg |-> StrV(t[j].name),
           string |-> <<>>, fmt |-> "pandas_header"] : j \in 1..Len(t) }
        \cup { [row |-> i, col |-> j - 1, op |-> "to_excel", arg |-> t[j].vals[i],
                 string |-> <<>>, fmt |-> "pandas"] : i \in 1..len(t), j \in 1..Len(t) }]

DefaultSheetName == <<"S", "h", "e", "e", "t", "1">>

Truncate31(s) == IF Len(s) > 31 THEN SubSeq(s, 1, 31) ELSE s

\* lines 390-401: the title row, the blank row and the table under the banner
titled_sheet(logo, t, title_line) ==
    LET cur_row == logo.row
        ncols == IF Len(t) > 1 THEN Len(t) ELSE 1
    IN  IF logo.raised THEN [ws |-> logo.ws, raised |-> TRUE]
        ELSE [ws |-> _write_excel_table(
                        set_row(set_row(merge_range(logo.ws, cur_row, 0, ncols - 1, title_line),
                                        cur_row, 28),
                                cur_row + 1, 16),
                        t, cur_row + 2, 0),
              raised |-> FALSE]

\* returns the worksheet and whether an exception left the function
_auto_excel_sheet(engine, t, sheet_name, title_line, put_logo, a) ==
    LET safe_name == Truncate31(IF sheet_name = <<>> THEN DefaultSheetName ELSE sheet_name)
    IN  IF engine = "xlsxwriter"
        THEN titled_sheet(IF put_logo
                          THEN _insert_wide_logo(add_worksheet(safe_name, "xlsxwriter"), t, 0, a)
                          ELSE [ws |-> add_worksheet(safe_name, "xlsxwriter"), row |-> 0,
                                raised |-> FALSE],
                          t, title_line)
        ELSE [ws |-> to_excel(add_worksheet(safe_name, "to_excel"), t), raised |-> FALSE]

NoExport == [fn |-> "none"]

\* the bytes of a one-sheet workbook, or the exception that left the with block
workbook_of(sh) ==
    IF sh.raised THEN [result |-> "raised", sheets |-> <<sh.ws>>]
    ELSE [result |-> "bytes", sheets |-> <<sh.ws>>]

make_excel_bytes(t, sheet_name, title_line, put_logo, engine, a) ==
    IF _pick_excel_engine(engine) = "None"
    THEN [result |-> "None", sheets |-> <<>>]
    ELSE workbook_of(_auto_excel_sheet(engine, t, sheet_name, title_line, put_logo, a))

\* dict.get(key, default) on an ordered dict held as a sequence of [k, v]
dict_get(d, key, default) ==
    IF \E i \in 1..Len(d) : d[i].k = key
    THEN d[CHOOSE i \in 1..Len(d) : d[i].k = key].v
    ELSE default

RECURSIVE two_sheets_loop(_, _, _, _, _, _, _)
\* the rest of the loop of lines 422-424 after sheet n has been written as sh
two_sheets_next(dfs, titles, n, sheets, engine, put_logo, a, sh) ==
    IF sh.raised THEN [result |-> "raised", sheets |-> Append(sheets, sh.ws)]
    ELSE two_sheets_loop(dfs, titles, n + 1, Append(sheets, sh.ws), engine, put_logo, a)

two_sheets_loop(dfs, titles, n, sheets, engine, put_logo, a) ==
    IF n > Len(dfs) THEN [result |-> "bytes", sheets |-> sheets]
    ELSE two_sheets_next(dfs, titles, n, sheets, engine, put_logo, a,
                         _auto_excel_sheet(engine, dfs[n].v, dfs[n].k,
                                           dict_get(titles, dfs[n].k, dfs[n].k), put_logo, a))

make_excel_combined_two_sheets(dfs, titles, put_logo, engine, a) ==
    IF _pick_excel_engine(engine) = "None"
    THEN [result |-> "None", sheets |-> <<>>]
    ELSE two_sheets_loop(dfs, titles, 1, <<>>, engine, put_logo, a)

\* max(dfs.values(), key=lambda d: len(d.columns)): the first table of maximal column count
widest_df(dfs) ==
    dfs[CHOOSE i \in 1..Len(dfs) :
            /\ \A j \in 1..Len(dfs) : Len(dfs[j].v) <= Len(dfs[i].v)
            /\ \A j \in 1..(i - 1) : Len(dfs[j].v) < Len(dfs[i].v)].v

max_cols(dfs) == MaxOf([i \in 1..Len(dfs) |-> Len(dfs[i].v)])

RECURSIVE stacked_sections(_, _, _, _)
stacked_sections(ws, dfs, n, cur_row) ==
    IF n > Len(dfs) THEN ws
    ELSE LET t == dfs[n].v
             ws1 == merge_range(ws, cur_row, 0, Len(t) - 1, dfs[n].k)
             ws2 == _write_excel_table(ws1, t, cur_row + 2, 0)
         IN  stacked_sections(ws2, dfs, n + 1, cur_row + 2 + len(t) + 3)

\* the frame pd.concat(out, ignore_index=True) builds in the openpyxl branch
RECURSIVE concat_names(_, _, _)
concat_names(dfs, n, acc) ==
    IF n > Len(dfs) THEN acc
    ELSE LET t == dfs[n].v
             new == SelectSeq([j \in 1..Len(t) |-> t[j].name],
                              LAMBDA c : \A i \in 1..Len(acc) : acc[i] # c)
         IN  concat_names(dfs, n + 1, acc \o new)

RECURSIVE concat_column(_, _, _)
concat_column(dfs, n, c) ==
    IF n > Len(dfs) THEN <<>>
    ELSE LET t == dfs[n].v
             here == \E j \in 1..Len(t) : t[j].name = c
             j0 == CHOOSE j \in 1..Len(t) : t[j].name = c
             part == IF here
                     THEN <<StrV(IF j0 = 1 THEN dfs[n].k ELSE <<>>)>> \o t[j0].vals
                          \o <<StrV(<<>>)>>
                     ELSE [i \in 1..(len(t) + 2) |-> NaN]
         IN  part \o concat_column(dfs, n + 1, c)

concat_frame(dfs, names) ==
    [j \in 1..Len(names) |->
        [name |-> names[j], dtype |-> "object", vals |-> concat_column(dfs, 1, names[j])]]

stacked_concat(dfs) == concat_frame(dfs, concat_names(dfs, 1, <<>>))

\* lines 445-458: the main title and the sections under the banner
stacked_sheet(logo, dfs, title_line) ==
    LET cur_row == logo.row
    IN  IF logo.raised THEN [result |-> "raised", sheets |-> <<logo.ws>>]
        ELSE [result |-> "bytes",
              sheets |-> <<stacked_sections(
                              set_row(merge_range(logo.ws, cur_row, 0, max_cols(dfs) - 1,
                                                  title_line),
                                      cur_row, 28),
                              dfs, 1, cur_row + 2)>>]

make_excel_single_sheet_stacked(dfs, title_line, sheet_name, put_logo, engine, a) ==
    IF _pick_excel_engine(engine) = "None"
    THEN [result |-> "None", sheets |-> <<>>]
    ELSE IF engine = "xlsxwriter"
    THEN stacked_sheet(IF put_logo
                       THEN _insert_wide_logo(add_worksheet(Truncate31(sheet_name), "xlsxwriter"),
                                              widest_df(dfs), 0, a)
                       ELSE [ws |-> add_worksheet(Truncate31(sheet_name), "xlsxwriter"),
                             row |-> 0, raised |-> FALSE],
                       dfs, title_line)
    ELSE [result |-> "bytes",
          sheets |-> <<to_excel(add_worksheet(Truncate31(sheet_name), "to_excel"),
                                stacked_concat(dfs))>>]

(***************************************************************************)
(* Text shaper.  arabic_reshaper.reshape replaces every Arabic letter by a *)
(* presentation form; get_display puts a right-to-left paragraph in visual *)
(* order: the characters are reversed, left-to-right runs keep their order.*)
(***************************************************************************)
PresentationForm(c) ==
    CASE c = "ra" -> "ra_form" [] c = "alef" -> "alef_form" [] c = "ba" -> "ba_form"
      [] c = "tah" -> "tah_form" [] c = "fa" -> "fa_form" [] c = "ta" -> "ta_form"
      [] c = "hah" -> "hah_form" [] c = "lam" -> "lam_form" [] c = "qaf" -> "qaf_form"
      [] c = "ya" -> "ya_form" [] c = "meem" -> "meem_form" [] c = "shin" -> "shin_form"
      [] c = "kaf" -> "kaf_form" [] c = "kha" -> "kha_form" [] c = "sad" -> "sad_form"
      [] c = "waw" -> "waw_form" [] c = "ain" -> "ain_form" [] c = "dal" -> "dal_form"
      [] OTHER -> c

PresentationForms == { PresentationForm(c) : c \in ArabicBlock }

reshape(s) == [i \in 1..Len(s) |-> PresentationForm(s[i])]

IsRtlChar(c) == c \in ArabicBlock \/ c \in PresentationForms

RECURSIVE visual_order(_, _, _, _)
visual_order(s, i, run, acc) ==
    IF i > Len(s) THEN run \o acc
    ELSE IF ~IsRtlChar(s[i]) /\ s[i] # " "
    THEN visual_order(s, i + 1, Append(run, s[i]), acc)
    ELSE visual_order(s, i + 1, <<>>, <<s[i]>> \o run \o acc)

get_display(s) ==
    IF \E i \in 1..Len(s) : IsRtlChar(s[i]) THEN visual_order(s, 1, <<>>, <<>>) ELSE s

\* a shaper whose failure loses the string
shape_arabic_blank(s, unshapeable) ==
    IF s \in unshapeable THEN <<>> ELSE get_display(reshape(s))

\* unshapeable: the strings on which reshape or get_display raises
shape_arabic(s, unshapeable) ==
    IF s \in unshapeable THEN s ELSE get_display(reshape(s))

\* font_ok: a font candidate exists and pdfmetrics.registerFont accepts it
\* registered: the fonts this call added with pdfmetrics.registerFont
register_arabic_font(font_ok) ==
    IF font_ok THEN [name |-> "ArabicFont", ok |-> TRUE, registered |-> 1]
    ELSE [name |-> "Helvetica", ok |-> FALSE, registered |-> 0]

(***************************************************************************)
(* Number formatting for the PDF path.                                     *)
(***************************************************************************)
CheckHint == <<"shin", "ya", "kaf">>

\* characters re.sub removes: whitespace, tatweel and the zero-width marks
NameNoise == {" ", "tatweel", "zwnj", "zwj", "lrm", "rlm"}

_normalize_name(s) == SelectSeq(s, LAMBDA c : c \notin NameNoise)

replace_commas(s) == SelectSeq(s, LAMBDA c : c # ",")

RECURSIVE lstrip(_)
lstrip(s) == IF s # <<>> /\ s[1] = " " THEN lstrip(Tail(s)) ELSE s

strip(s) == Reverse(lstrip(Reverse(lstrip(s))))

Digits == {"0", "1", "2", "3", "4", "5", "6", "7", "8", "9"}

DigitValue(c) == CHOOSE n \in 0..9 : Digit(n) = c

RECURSIVE NatValue(_)
NatValue(s) == IF s = <<>> THEN 0 ELSE NatValue(SubSeq(s, 1, Len(s) - 1)) * 10 + DigitValue(s[Len(s)])

AllDigits(s) == \A i \in 1..Len(s) : s[i] \in Digits

\* float(s) for decimal literals of at most two fraction digits, "nan" and failures;
\* the value is in hundredths
\* the value of the literal with sign sgn, integer part ip and fraction part fp
float_of_parts(sgn, s, ndots, ip, fp) ==
    IF s = <<"n", "a", "n">> THEN [ok |-> TRUE, nan |-> TRUE, v |-> 0]
    ELSE IF /\ ndots <= 1
            /\ AllDigits(ip) /\ AllDigits(fp)
            /\ Len(ip) + Len(fp) > 0
            /\ Len(fp) <= 2
    THEN [ok |-> TRUE, nan |-> FALSE,
          v |-> sgn * (NatValue(ip) * 100
                       + (IF Len(fp) = 0 THEN 0
                          ELSE IF Len(fp) = 1 THEN DigitValue(fp[1]) * 10 ELSE NatValue(fp)))]
    ELSE [ok |-> FALSE, nan |-> FALSE, v |-> 0]

\* the literal s without its sign, split at the decimal point
float_unsigned(sgn, s) ==
    LET dots == { i \in 1..Len(s) : s[i] = "." }
    IN  float_of_parts(sgn, s, Cardinality(dots),
                       IF dots = {} THEN s ELSE SubSeq(s, 1, (CHOOSE i \in dots : TRUE) - 1),
                       IF dots = {} THEN <<>>
                       ELSE SubSeq(s, (CHOOSE i \in dots : TRUE) + 1, Len(s)))

float_stripped(s1) ==
    float_unsigned(IF s1 # <<>> /\ s1[1] = "-" THEN 0 - 1 ELSE 1,
                   IF s1 # <<>> /\ s1[1] \in {"-", "+"} THEN Tail(s1) ELSE s1)

float(s0) == float_stripped(strip(s0))

RECURSIVE group_digits(_)
group_digits(s) ==
    IF Len(s) <= 3 THEN s
    ELSE group_digits(SubSeq(s, 1, Len(s) - 3)) \o <<",">> \o SubSeq(s, Len(s) - 2, Len(s))

\* f"{x:,.2f}" of a value given in hundredths
format_grouped(h) ==
    LET a == Abs(h)
    IN  (IF h < 0 THEN <<"-">> ELSE <<>>) \o group_digits(NatStr(a \div 100))
        \o <<".", Digit((a % 100) \div 10), Digit(a % 10)>>

RECURSIVE rstrip_char(_, _)
rstrip_char(s, c) ==
    IF s # <<>> /\ s[Len(s)] = c THEN rstrip_char(SubSeq(s, 1, Len(s) - 1), c) ELSE s

\* lines 486-494: the text for x once float() has given f
plain_number_text(x, f) ==
    IF ~f.ok \/ f.nan THEN str(x)
    ELSE IF f.v % 100 = 0
    THEN (IF f.v < 0 THEN <<"-">> ELSE <<>>) \o NatStr(Abs(f.v) \div 100)
    ELSE rstrip_char(rstrip_char(FloatStr(f.v), "0"), ".")

\* a rendering that groups the digits of flagged columns like any other number
_plain_number_grouped(x) == IF isna(x) THEN <<>> ELSE format_grouped(x.v)

_plain_number_no_commas(x) ==
    IF isna(x) THEN <<>>
    ELSE plain_number_text(x, float(strip(replace_commas(str(x)))))

\* the text for the cell text s, given strip(s) and float(s.replace(",", ""))
fmt_cell_text(s, st, fv) ==
    IF st # <<>> /\ st[Len(st)] = "%" THEN s
    ELSE IF fv.ok THEN (IF fv.nan THEN <<"n", "a", "n">> ELSE format_grouped(fv.v))
    ELSE s

_fmt_cell(v) == fmt_cell_text(str(v), strip(str(v)), float(replace_commas(str(v))))

_format_numbers_for_display(t, no_comma_cols) ==
    LET requested == { _normalize_name(c) : c \in no_comma_cols }
    IN  [j \in 1..Len(t) |->
            LET c_norm == _normalize_name(t[j].name)
                force_plain == c_norm \in requested \/ Contains(c_norm, CheckHint)
            IN  [name |-> t[j].name, dtype |-> "object",
                 vals |-> [i \in 1..len(t) |->
                    LET x == t[j].vals[i]
                    IN  StrV(IF force_plain THEN _plain_number_no_commas(x)
                             ELSE IF t[j].dtype = "float64"
                             THEN (IF isna(x) THEN <<>> ELSE format_grouped(x.v))
                             ELSE _fmt_cell(x))]]]

\* out = df.copy() (line 504): a new frame, not shared with the caller's
\* out = df: the frame that is assigned to is the caller's own
copy_alias(t) == [frame |-> t, shared |-> TRUE]

copy(t) == [frame |-> t, shared |-> FALSE]

\* the frame returned and the caller's frame once the columns of target are assigned
assign_columns(t, target, formatted) ==
    [returned |-> formatted, input |-> IF target.shared THEN formatted ELSE t]

\* a call of _format_numbers_for_display, as its caller sees it
format_numbers_call(t, no_comma_cols) ==
    assign_columns(t, copy(t), _format_numbers_for_display(t, no_comma_cols))

(***************************************************************************)
(* Paginated renderer.  Lengths are points; an export is the list of       *)
(* flowables given to doc.build.                                           *)
(***************************************************************************)
\* landscape(A4)[0] = 297 mm = 297 * 72 / 25.4 pt
PageWidth == Rat(297 * 720, 254)

NoneWidth == [n |-> 0, d |-> 0]

Truthy(w) == w.d # 0 /\ w.n # 0

Paragraph(text, style) == [t |-> "Paragraph", text |-> text, style |-> style, href |-> <<>>]

LinkParagraph(href, text, style) ==
    [t |-> "Paragraph", text |-> text, style |-> style, href |-> href]

Spacer(h) == [t |-> "Spacer", h |-> h]

PageBreak == [t |-> "PageBreak"]

\* alignment of the ParagraphStyles: 0 left, 1 center, 2 right
StyleAlignment(style) ==
    CASE style = "Title" -> 1 [] style = "Hdr" -> 1 [] style = "CellR" -> 2
      [] style = "CellL" -> 0 [] style = "Link" -> 2 [] style = "Sec" -> 2

_pdf_header_elements(title_line, font_ok, a, unshapeable) ==
    LET font == register_arabic_font(font_ok)
        avail_w == RatAdd(PageWidth, RatInt(0 - 14 - 14))
        title == IF font.ok THEN shape_arabic(title_line, unshapeable) ELSE title_line
        size == _image_size(a)
        ratio == IF size[1] # 0 THEN Rat(size[2], size[1]) ELSE Rat(2, 10)
        img_h == IF a.pil
                 THEN RatMax(RatInt(22), RatMul(RatMul(avail_w, ratio), Rat(55, 100)))
                 ELSE RatInt(36)
        logo == IF _wide_logo_path(a) /\ a.raises = "never"
                THEN << [t |-> "Image", drawWidth |-> avail_w, drawHeight |-> img_h], Spacer(8) >>
                ELSE <<>>
    IN  [elements |-> logo \o << Paragraph(title, "Title"), Spacer(8) >>,
         avail_w |-> avail_w, registered |-> font.registered]

\* the test of line 589 that renders a cell as a link
pdf_is_link(c, sval) == IsUrl(sval) \/ (Contains(c, LinkHint) /\ sval # <<>>)

pdf_header_cell(c, unshapeable) ==
    Paragraph(IF looks_arabic(c) THEN shape_arabic(c, unshapeable) ELSE c, "Hdr")

pdf_body_cell(c, val, unshapeable) ==
    LET sval == IF isna(val) THEN <<>> ELSE str(val)
        is_ar == looks_arabic(sval)
    IN  IF pdf_is_link(c, sval)
        THEN LinkParagraph(sval, shape_arabic(LinkCaption, unshapeable), "Link")
        ELSE Paragraph(IF is_ar THEN shape_arabic(sval, unshapeable) ELSE sval,
                       IF is_ar THEN "CellR" ELSE "CellL")

\* lines 597-600: the desired width of every column
pdf_desired_widths(t, max_col_width) ==
    [j \in 1..Len(t) |->
        LET max_len == MaxOf(<<Len(t[j].name)>>
                             \o [i \in 1..len(t) |-> Len(astype_str(t[j].vals[i]))])
        IN  RatMin(RatMul(RatInt(max_len), Rat(64, 10)), RatInt(max_col_width))]

\* a fit that stretches or shrinks every table to the available width
pdf_fit_widths_always_scaled(col_widths, avail_width) ==
    IF Truthy(avail_width)
    THEN [j \in 1..Len(col_widths) |->
             RatMul(col_widths[j], RatDiv(avail_width, RatSum(col_widths)))]
    ELSE col_widths

\* a fit that shrinks too-wide tables by one half, whatever the available width
pdf_fit_widths_halved(col_widths, avail_width) ==
    IF Truthy(avail_width) /\ RatLt(avail_width, RatSum(col_widths))
    THEN [j \in 1..Len(col_widths) |-> RatMul(col_widths[j], Rat(1, 2))]
    ELSE col_widths

\* lines 601-605: the fit of the desired widths to the available width
pdf_fit_widths(col_widths, avail_width) ==
    IF Truthy(avail_width)
    THEN LET total == RatSum(col_widths)
         IN  IF RatLt(avail_width, total)
             THEN LET factor == RatDiv(avail_width, total)
                  IN  [j \in 1..Len(col_widths) |-> RatMul(col_widths[j], factor)]
             ELSE col_widths
    ELSE col_widths

_pdf_table(t, title, max_col_width, font_size, avail_width, font_ok, unshapeable) ==
    LET font == register_arabic_font(font_ok)
        blocks == IF title # <<>>
                  THEN << Paragraph(shape_arabic(title, unshapeable), "Sec"), Spacer(4) >>
                  ELSE <<>>
        headers == [j \in 1..Len(t) |-> pdf_header_cell(t[j].name, unshapeable)]
        rows == <<headers>>
                \o [i \in 1..len(t) |->
                       [j \in 1..Len(t) |-> pdf_body_cell(t[j].name, t[j].vals[i], unshapeable)]]
        col_widths == pdf_fit_widths(pdf_desired_widths(t, max_col_width), avail_width)
    IN  blocks \o << [t |-> "Table", rows |-> rows, repeatRows |-> 1,
                       colWidths |-> col_widths, font_name |-> font.name,
                       font_size |-> font_size] >>

\* (max_col_width, font size in tenths of a point)
_choose_pdf_font(t) ==
    LET n == Len(t)
    IN  IF n >= 12 THEN [max_col_width |-> 110, font_size |-> 70]
        ELSE IF n >= 9 THEN [max_col_width |-> 125, font_size |-> 75]
        ELSE [max_col_width |-> 150, font_size |-> 80]

\* lines 638-642: the story of make_pdf_bytes and the document built from it
pdf_document(hdr, ch, t, font_ok, unshapeable) ==
    [result |-> "bytes",
     elements |-> hdr.elements
                  \o _pdf_table(t, <<>>, ch.max_col_width, ch.font_size, hdr.avail_w, font_ok,
                                unshapeable),
     registered |-> hdr.registered + register_arabic_font(font_ok).registered]

make_pdf_bytes(t, title_line, font_ok, a, unshapeable) ==
    pdf_document(_pdf_header_elements(title_line, font_ok, a, unshapeable), _choose_pdf_font(t),
                 t, font_ok, unshapeable)

\* "ملخص المشروع" and "دفتر التدفق", the section titles of lines 656 and 659
SummarySectionTitle ==
    <<"meem", "lam", "kha", "sad", " ", "alef", "lam", "meem", "shin", "ra", "waw", "ain">>

FlowSectionTitle == <<"dal", "fa", "ta", "ra", " ", "alef", "lam", "ta", "dal", "fa", "qaf">>

\* a combined story that ends every section, the last too, with a page break
pdf_combined_document_break_each(hdr, summary_df, ch_s, flow_df, ch_f, font_ok, unshapeable) ==
    [result |-> "bytes",
     elements |-> hdr.elements
                  \o _pdf_table(summary_df, SummarySectionTitle, ch_s.max_col_width,
                                ch_s.font_size, hdr.avail_w, font_ok, unshapeable)
                  \o << PageBreak >>
                  \o _pdf_table(flow_df, FlowSectionTitle, ch_f.max_col_width,
                                ch_f.font_size, hdr.avail_w, font_ok, unshapeable)
                  \o << PageBreak >>,
     registered |-> hdr.registered + register_arabic_font(font_ok).registered
                    + register_arabic_font(font_ok).registered]

\* lines 653-661: the story of make_pdf_combined and the document built from it
pdf_combined_document(hdr, summary_df, ch_s, flow_df, ch_f, font_ok, unshapeable) ==
    [result |-> "bytes",
     elements |-> hdr.elements
                  \o _pdf_table(summary_df, SummarySectionTitle, ch_s.max_col_width,
                                ch_s.font_size, hdr.avail_w, font_ok, unshapeable)
                  \o << PageBreak >>
                  \o _pdf_table(flow_df, FlowSectionTitle, ch_f.max_col_width,
                                ch_f.font_size, hdr.avail_w, font_ok, unshapeable),
     registered |-> hdr.registered + register_arabic_font(font_ok).registered
                    + register_arabic_font(font_ok).registered]

make_pdf_combined(summary_df, flow_df, title_line, font_ok, a, unshapeable) ==
    pdf_combined_document(_pdf_header_elements(title_line, font_ok, a, unshapeable),
                          summary_df, _choose_pdf_font(summary_df),
                          flow_df, _choose_pdf_font(flow_df), font_ok, unshapeable)

(***************************************************************************)
(* Inputs of the export calls.                                             *)
(***************************************************************************)
TitleLine == <<"alef", "lam", " ", "H", "G", "A", "D">>

DataSheetName == <<"alef", "lam", "ba", "ya">>

SummarySheetName == <<"meem", "lam">>

StackedSheetName == <<"ta", "qaf", "ra", "ya", "ra">>

SummaryTitle == <<"alef", "lam", " ", "meem">>

\* the ordered dicts {section: table} a combined export is called with
SectionDicts(t) ==
    { <<[k |-> DataSheetName, v |-> t]>> }
    \cup { <<[k |-> SummarySheetName, v |-> s], [k |-> DataSheetName, v |-> t]>> :
              s \in SummaryTables }
    \cup { <<[k |-> DataSheetName, v |-> t], [k |-> SummarySheetName, v |-> s]>> :
              s \in SummaryTables }

SheetTitles == <<[k |-> SummarySheetName, v |-> SummaryTitle], [k |-> DataSheetName, v |-> TitleLine]>>

SectionTitles == { <<>>, SummaryTitle }

\* max_col_width: the default of _pdf_table and a narrow cap
MaxColWidths == { 120, 40 }

\* avail_width: not given, the page of make_pdf_bytes, and two narrower frames
AvailWidths == { NoneWidth, RatAdd(PageWidth, RatInt(0 - 28)), RatInt(100), Rat(305, 10) }

\* no_comma_cols: the default, the ledger's list, and a name written with a tatweel
NoCommaCols == { {}, {CheckNumberName}, {<<"q", "tatweel", "t", "y">>} }

\* the strings the shaping libraries raise on: none, a header, the link caption
Unshapeables == { {}, {LinkHint}, {LinkCaption} }

\* the header makes one image call: PIL present, the call raising or not
PdfCombinedAssets == { a \in Assets : a.pil /\ a.raises # "once" }

ExcelAssets(engine, put_logo) ==
    IF engine = "xlsxwriter" /\ put_logo THEN Assets ELSE {x \in Assets : x.logo = "absent"}

make_csv_utf8(t) == [result |-> "bytes"]

(***************************************************************************)
(* main(), the table modes (lines 872-912): the downloads it offers for    *)
(* the fetched table, with no date filter and no search term entered.      *)
(***************************************************************************)
\* lines 883-912: the buttons shown once the three exports have been made
download_buttons(xlsx_bytes, csv_bytes, pdf_bytes) ==
    IF xlsx_bytes.result = "raised"
    THEN [xlsx |-> "raised", aborted |-> TRUE, offered |-> <<>>]
    ELSE [xlsx |-> xlsx_bytes.result, aborted |-> FALSE,
          offered |->
             (IF xlsx_bytes.result # "None"
              THEN << [kind |-> "xlsx", data |-> xlsx_bytes] >> ELSE <<>>)
             \o << [kind |-> "csv", data |-> csv_bytes],
                   [kind |-> "pdf", data |-> pdf_bytes] >>]

main(t, engine, font_ok, a, unshapeable) ==
    IF len(t) = 0
    THEN [xlsx |-> "not called", aborted |-> FALSE, offered |-> <<>>]
    ELSE download_buttons(make_excel_bytes(t, DataSheetName, TitleLine, TRUE, engine, a),
                          make_csv_utf8(t),
                          make_pdf_bytes(_format_numbers_for_display(t, {}), TitleLine,
                                         font_ok, a, unshapeable))

(***************************************************************************)
(* The state machine: main() holds one fetched table and calls exports.    *)
(***************************************************************************)
Init ==
    /\ df \in AllTables
    /\ out = NoExport

\* a new selection in the sidebar: main() fetches another table
Load ==
    /\ out = NoExport
    /\ df' \in AllTables
    /\ out' = NoExport

\* the script is run again on the same selection
Rerun ==
    /\ out # NoExport
    /\ out' = NoExport
    /\ UNCHANGED df

MakeExcelBytes ==
    /\ out = NoExport
    /\ \E engine \in Engines, put_logo \in BOOLEAN :
         \E a \in ExcelAssets(engine, put_logo) :
            out' = [fn |-> "make_excel_bytes", engine |-> engine, put_logo |-> put_logo,
                    asset |-> a, dfs |-> <<[k |-> DataSheetName, v |-> df]>>]
                   @@ make_excel_bytes(df, DataSheetName, TitleLine, put_logo, engine, a)
    /\ UNCHANGED df

MakeExcelCombinedTwoSheets ==
    /\ out = NoExport
    /\ \E engine \in Engines, dfs \in SectionDicts(df) :
         \E a \in ExcelAssets(engine, TRUE) :
            out' = [fn |-> "make_excel_combined_two_sheets", engine |-> engine,
                    put_logo |-> TRUE, asset |-> a, dfs |-> dfs]
                   @@ make_excel_combined_two_sheets(dfs, SheetTitles, TRUE, engine, a)
    /\ UNCHANGED df

MakeExcelSingleSheetStacked ==
    /\ out = NoExport
    /\ \E engine \in Engines, dfs \in SectionDicts(df) :
         \E a \in ExcelAssets(engine, TRUE) :
            out' = [fn |-> "make_excel_single_sheet_stacked", engine |-> engine,
                    put_logo |-> TRUE, asset |-> a, dfs |-> dfs]
                   @@ make_excel_single_sheet_stacked(dfs, TitleLine, StackedSheetName, TRUE,
                                                      engine, a)
    /\ UNCHANGED df

MakePdfBytes ==
    /\ out = NoExport
    /\ \E font_ok \in BOOLEAN, a \in Assets, unshapeable \in Unshapeables :
            out' = [fn |-> "make_pdf_bytes", font_ok |-> font_ok, asset |-> a,
                    unshapeable |-> unshapeable]
                   @@ make_pdf_bytes(df, TitleLine, font_ok, a, unshapeable)
    /\ UNCHANGED df

\* _pdf_table called on its own, with the arguments it accepts
PdfTable ==
    /\ out = NoExport
    /\ \E title \in SectionTitles, max_col_width \in MaxColWidths,
          avail_width \in AvailWidths, font_ok \in BOOLEAN, unshapeable \in Unshapeables :
            out' = [fn |-> "_pdf_table", font_ok |-> font_ok, title |-> title,
                    unshapeable |-> unshapeable,
                    max_col_width |-> max_col_width, avail_width |-> avail_width,
                    result |-> "blocks", registered |-> register_arabic_font(font_ok).registered,
                    elements |-> _pdf_table(df, title, max_col_width, 80, avail_width, font_ok,
                                            unshapeable)]
    /\ UNCHANGED df

MakePdfCombined ==
    /\ out = NoExport
    /\ \E summary_df \in SummaryTables, font_ok \in BOOLEAN, a \in PdfCombinedAssets,
          unshapeable \in Unshapeables :
            out' = [fn |-> "make_pdf_combined", font_ok |-> font_ok, asset |-> a,
                    unshapeable |-> unshapeable, summary_df |-> summary_df]
                   @@ make_pdf_combined(summary_df, df, TitleLine, font_ok, a, unshapeable)
    /\ UNCHANGED df

FormatNumbers ==
    /\ out = NoExport
    /\ \E no_comma_cols \in NoCommaCols :
         \E call \in {format_numbers_call(df, no_comma_cols)} :
            /\ out' = [fn |-> "_format_numbers_for_display", no_comma_cols |-> no_comma_cols,
                       result |-> "frame", frame |-> call.returned]
            /\ df' = call.input

Main ==
    /\ out = NoExport
    /\ \E engine \in Engines, font_ok \in BOOLEAN, a \in Assets,
          unshapeable \in Unshapeables :
            out' = [fn |-> "main", engine |-> engine, font_ok |-> font_ok, asset |-> a,
                    unshapeable |-> unshapeable]
                   @@ main(df, engine, font_ok, a, unshapeable)
    /\ df' = IF len(df) = 0 THEN df ELSE format_numbers_call(df, {}).input

Next ==
    \/ Load
    \/ Main
    \/ MakePdfBytes
    \/ PdfTable
    \/ Rerun
    \/ MakeExcelBytes
    \/ MakeExcelCombinedTwoSheets
    \/ MakeExcelSingleSheetStacked
    \/ FormatNumbers
    \/ MakePdfCombined

Spec == Init /\ [][Next]_vars

(***************************************************************************)
(* Properties of the column-width fit of _pdf_table.                       *)
(***************************************************************************)
\* the calls that end with the Table flowable of the fetched table
IsPdfTableCall == out.fn \in {"_pdf_table", "make_pdf_bytes"}

\* colWidths of that Table
FittedWidths == out.elements[Len(out.elements)].colWidths

DesiredWidths ==
    pdf_desired_widths(df, IF out.fn = "_pdf_table" THEN out.max_col_width
                           ELSE _choose_pdf_font(df).max_col_width)

AvailWidth ==
    IF out.fn = "_pdf_table" THEN out.avail_width ELSE RatAdd(PageWidth, RatInt(0 - 28))

\* C1: when an available width is given to _pdf_table, the final widths are the
\* desired widths if these sum to at most the available width; otherwise every
\* width is the desired width times available/sum and the final widths sum to
\* exactly the available width.
C1_WidthFitting ==
    (IsPdfTableCall /\ Truthy(AvailWidth)) =>
        /\ Len(FittedWidths) = Len(DesiredWidths)
        /\ IF RatLe(RatSum(DesiredWidths), AvailWidth)
           THEN FittedWidths = DesiredWidths
           ELSE /\ \A j \in 1..Len(DesiredWidths) :
                     RatMul(FittedWidths[j], RatSum(DesiredWidths))
                        = RatMul(DesiredWidths[j], AvailWidth)
                /\ RatSum(FittedWidths) = AvailWidth

\* a two-column table of unequal desired widths that did not fit and was scaled
C1_Witness ==
    /\ out.fn = "_pdf_table"
    /\ Truthy(AvailWidth)
    /\ Len(df) = 2
    /\ DesiredWidths[1] # DesiredWidths[2]
    /\ RatLt(AvailWidth, RatSum(DesiredWidths))
    /\ FittedWidths # DesiredWidths
    /\ RatSum(FittedWidths) = AvailWidth

\* the cell padding of the table style: a column narrower than LeftPadding +
\* RightPadding has no room for its content
LeftPadding == 3

RightPadding == 3

HasContent(c) == c.name # <<>> \/ \E i \in 1..Len(c.vals) : astype_str(c.vals[i]) # <<>>

\* C2: after fitting, every column that has content is at least a fixed positive
\* minimum wide (here the padding of a cell), however small the scale factor.
C2_MinimumFloor ==
    IsPdfTableCall =>
        \A j \in 1..Len(df) :
            HasContent(df[j]) => RatLe(RatInt(LeftPadding + RightPadding), FittedWidths[j])

\* C3: with an available width supplied, the fitted widths sum to at most the
\* available width, and a column desired wider than another is fitted at least
\* as wide.
C3_FitsAndKeepsOrder ==
    (IsPdfTableCall /\ Truthy(AvailWidth)) =>
        /\ RatLe(RatSum(FittedWidths), AvailWidth)
        /\ \A i, j \in 1..Len(df) :
              RatLt(DesiredWidths[j], DesiredWidths[i])
                 => RatLe(FittedWidths[j], FittedWidths[i])

\* a scaled table whose second column was desired, and is fitted, strictly wider
C3_Witness ==
    /\ IsPdfTableCall
    /\ Truthy(AvailWidth)
    /\ Len(df) = 2
    /\ RatLt(AvailWidth, RatSum(DesiredWidths))
    /\ RatLt(DesiredWidths[1], DesiredWidths[2])
    /\ RatLt(FittedWidths[1], FittedWidths[2])
    /\ RatLe(RatSum(FittedWidths), AvailWidth)

(***************************************************************************)
(* Properties of the banner and of the writer engine.                      *)
(***************************************************************************)
IsExcelCall ==
    out.fn \in {"make_excel_bytes", "make_excel_combined_two_sheets",
                "make_excel_single_sheet_stacked"}

\* the calls that look for the banner
UsesBanner == IsExcelCall \/ out.fn \in {"make_pdf_bytes", "main"}

BannerReadable == out.asset.logo = "ok" /\ out.asset.pil

ImageElements == { k \in 1..Len(out.elements) : out.elements[k].t = "Image" }

\* the pixel width of the columns as finally set on a worksheet
ColumnPixels(ws) ==
    _chars_to_pixels(SumSeq([j \in 1..Cardinality(ws.col_w) |->
                               (CHOOSE c \in ws.col_w : c.col = j - 1).w]))

\* C4: with a banner of readable dimensions, both renderers show it at the
\* target width and at the height intrinsic height * target width / intrinsic
\* width: the table width on a sheet, the frame width on a page.
C4_AspectRatioKept ==
    /\ (out.fn = "make_pdf_bytes" /\ BannerReadable) =>
          \A k \in ImageElements :
             /\ out.elements[k].drawWidth = RatAdd(PageWidth, RatInt(0 - 28))
             /\ RatMul(out.elements[k].drawHeight, RatInt(out.asset.img[1]))
                   = RatMul(out.elements[k].drawWidth, RatInt(out.asset.img[2]))
    /\ (out.fn = "make_excel_bytes" /\ BannerReadable) =>
          \A k \in 1..Len(out.sheets) : \A im \in out.sheets[k].images :
             /\ im.y_scale = im.x_scale
             /\ RatMul(im.x_scale, RatInt(out.asset.img[1]))
                   = _chars_to_pixels(SumSeq(_estimate_col_widths_chars(df)))

\* C5: in every spreadsheet mode an inserted banner is as wide, in pixels, as the
\* columns of its sheet as finally set.
C5_BannerSpansColumns ==
    (IsExcelCall /\ out.asset.logo = "ok") =>
        \A k \in 1..Len(out.sheets) : \A im \in out.sheets[k].images :
            RatMul(im.x_scale, RatInt(out.asset.img[1])) = ColumnPixels(out.sheets[k])

\* C6: with no banner file the export completes; a sheet has no image and its
\* title is on the start row, a page has no image and starts with the title.
C6_MissingBannerSkipped ==
    (UsesBanner /\ out.asset.logo = "absent") =>
        /\ IsExcelCall =>
              /\ out.result # "raised"
              /\ \A k \in 1..Len(out.sheets) :
                    /\ out.sheets[k].images = {}
                    /\ out.sheets[k].via = "xlsxwriter"
                          => \E m \in out.sheets[k].merges : m.row = 0
        /\ out.fn = "make_pdf_bytes" =>
              /\ out.result = "bytes"
              /\ ImageElements = {}
              /\ out.elements[1].t = "Paragraph" /\ out.elements[1].style = "Title"
        /\ out.fn = "main" => ~out.aborted

\* a sheet written with the banner requested and no banner file
C6_Witness ==
    /\ out.fn = "make_excel_bytes" /\ out.engine = "xlsxwriter" /\ out.put_logo
    /\ out.asset.logo = "absent"
    /\ out.result = "bytes"
    /\ out.sheets[1].images = {}
    /\ \E m \in out.sheets[1].merges : m.row = 0 /\ m.text = TitleLine

\* C7: with a corrupt banner file no export is aborted: no failure raised while
\* the banner is handled escapes to the caller.
C7_CorruptBannerContained ==
    (UsesBanner /\ out.asset.logo = "corrupt") =>
        IF out.fn = "main" THEN ~out.aborted ELSE out.result # "raised"

Offered(kind) == \E k \in 1..Len(out.offered) : out.offered[k].kind = kind

\* C8: the three spreadsheet exports return None exactly when no writer engine
\* can be imported, and main() then offers no Excel download but still offers
\* the CSV and PDF downloads.
C8_NullOnlyWithoutEngine ==
    /\ IsExcelCall => ((out.result = "None") <=> (out.engine = "None"))
    /\ (out.fn = "main" /\ out.engine = "None") =>
          ~out.aborted /\ out.xlsx \in {"None", "not called"}
    /\ (out.fn = "main" /\ ~out.aborted /\ len(df) > 0) =>
          /\ Offered("xlsx") <=> out.xlsx = "bytes"
          /\ Offered("csv")
          /\ Offered("pdf")

\* main() run on a table with rows when no engine can be imported
C8_Witness ==
    /\ out.fn = "main" /\ out.engine = "None"
    /\ len(df) > 0
    /\ out.xlsx = "None"
    /\ ~Offered("xlsx") /\ Offered("csv") /\ Offered("pdf")

(***************************************************************************)
(* Properties of the cell writers.                                         *)
(***************************************************************************)
\* the text of a cell as both body loops compute it (lines 341 and 588)
CellText(val) == IF isna(val) THEN <<>> ELSE str(val)

HasLinkHint(c) == Contains(c.name, LinkHint)

\* the xlsxwriter sheet of a single-table export
IsXlsxSheetCall == out.fn = "make_excel_bytes" /\ out.engine = "xlsxwriter"

\* the call recorded for row i of column j of the table written on ws
BodyCellOf(ws, i, j) ==
    CHOOSE x \in ws.cells :
        \E tb \in ws.tables : x.row = tb.r0 + i /\ x.col = tb.c0 + j - 1

\* the paragraph of row i of column j in the Table flowable
PdfCellOf(i, j) == out.elements[Len(out.elements)].rows[i + 1][j]

\* C9: on a sheet and on a page, a cell is a link with the fixed caption if and
\* only if its column name carries the hyperlink hint and its value is an
\* http(s):// URL; any other value of such a column is plain text.
C9_LinkIffHintAndUrl ==
    /\ (IsXlsxSheetCall /\ out.result = "bytes") =>
          \A j \in 1..Len(df) : \A i \in 1..len(df) :
             (BodyCellOf(out.sheets[1], i, j).op = "write_url")
                <=> (HasLinkHint(df[j]) /\ IsUrl(CellText(df[j].vals[i])))
    /\ IsPdfTableCall =>
          \A j \in 1..Len(df) : \A i \in 1..len(df) :
             (PdfCellOf(i, j).href # <<>>)
                <=> (HasLinkHint(df[j]) /\ IsUrl(CellText(df[j].vals[i])))

\* the writer of a column's kind: hyperlink by name, then date, number, text
KindWriter(c) ==
    IF HasLinkHint(c) THEN "write_url"
    ELSE IF c.dtype = "datetime64" THEN "write_datetime"
    ELSE IF c.dtype = "float64" THEN "write_number"
    ELSE "write"

\* C10: the spreadsheet writer is chosen per column: a column with the hint is
\* never written as date or number, a column without it is never written as a
\* link, and the non-null cells of a column all go to the writer of its kind,
\* apart from the plain-text fallback in a hyperlink column.
C10_WriterPerColumnKind ==
    (IsXlsxSheetCall /\ out.result = "bytes") =>
        \A j \in 1..Len(df) : \A i \in 1..len(df) :
            LET op == BodyCellOf(out.sheets[1], i, j).op
            IN  /\ HasLinkHint(df[j]) => op \notin {"write_datetime", "write_number"}
                /\ ~HasLinkHint(df[j]) => op # "write_url"
                /\ ~isna(df[j].vals[i]) =>
                      \/ op = KindWriter(df[j])
                      \/ HasLinkHint(df[j]) /\ op = "write"

(***************************************************************************)
(* Properties of the number formatting of the PDF path.                    *)
(***************************************************************************)
IsFormatCall == out.fn = "_format_numbers_for_display"

\* the column is listed in no_comma_cols or its normalized name holds the check hint
NoGrouping(c) ==
    \/ _normalize_name(c.name) \in { _normalize_name(x) : x \in out.no_comma_cols }
    \/ Contains(_normalize_name(c.name), CheckHint)

\* a float, or text that is a number once its commas are removed
IsNumber(val) ==
    \/ val.k = "float"
    \/ val.k = "str" /\ val.s # <<>> /\ \A k \in 1..Len(val.s) : val.s[k] \in Digits \cup {","}

\* s is a number with two decimals whose integer digits are grouped in threes
IsGroupedTwoDecimals(s) ==
    /\ Len(s) >= 4
    /\ s[Len(s) - 2] = "."
    /\ s[Len(s) - 1] \in Digits /\ s[Len(s)] \in Digits
    /\ s[1] \in Digits
    /\ \A k \in 1..(Len(s) - 3) :
          IF (Len(s) - 3 - k + 1) % 4 = 0 THEN s[k] = "," ELSE s[k] \in Digits

\* C11: _format_numbers_for_display renders every number of a no-grouping column
\* (listed, or named after the check number) as plain digits without a
\* thousands separator, and every number of the other numeric columns grouped
\* with two decimals.
C11_NoGroupingColumns ==
    IsFormatCall =>
        \A j \in 1..Len(df) : \A i \in 1..len(df) :
            LET shown == out.frame[j].vals[i].s
            IN  /\ (NoGrouping(df[j]) /\ IsNumber(df[j].vals[i])) =>
                      /\ shown # <<>>
                      /\ \A k \in 1..Len(shown) : shown[k] \in Digits \cup {"."}
                /\ (~NoGrouping(df[j]) /\ df[j].dtype = "float64" /\ ~isna(df[j].vals[i])) =>
                      IsGroupedTwoDecimals(shown)

\* the ledger's check number 12345.0 shown plain beside an amount shown grouped
C11_Witness ==
    /\ IsFormatCall
    /\ Len(df) = 2
    /\ df[1].name = CheckNumberName /\ df[1].vals = <<FloatV(1234500)>>
    /\ out.frame[1].vals[1].s = <<"1", "2", "3", "4", "5">>
    /\ ~NoGrouping(df[2]) /\ df[2].dtype = "float64"
    /\ out.frame[2].vals[1].s = <<"1", ",", "5", "0", "0", ".", "5", "0">>

(***************************************************************************)
(* Properties of the text shaping of the paginated renderer.               *)
(***************************************************************************)
IsPdfBytesCall == out.fn = "make_pdf_bytes"

\* what a place that shapes exactly the Arabic strings emits for s
ShapedIfArabic(s) ==
    IF \E k \in 1..Len(s) : s[k] \in ArabicBlock THEN get_display(reshape(s)) ELSE s

TextsOfStyle(style) ==
    { out.elements[k].text : k \in { i \in 1..Len(out.elements) :
          out.elements[i].t = "Paragraph" /\ out.elements[i].style = style } }

TableOf(elements) == elements[Len(elements)]

\* C12: every text the paginated renderer emits (document title, column
\* header, cell) is shaped exactly when it contains an Arabic character,
\* whether or not an Arabic font was registered.
C12_ShapedIffArabic ==
    (IsPdfBytesCall /\ out.unshapeable = {}) =>
        /\ TextsOfStyle("Title") = { ShapedIfArabic(TitleLine) }
        /\ \A j \in 1..Len(df) :
              /\ TableOf(out.elements).rows[1][j].text = ShapedIfArabic(df[j].name)
              /\ \A i \in 1..len(df) :
                    TableOf(out.elements).rows[i + 1][j].href = <<>> =>
                        TableOf(out.elements).rows[i + 1][j].text
                            = ShapedIfArabic(IF isna(df[j].vals[i]) THEN <<>>
                                             ELSE str(df[j].vals[i]))

(***************************************************************************)
(* Containment of the failure of one value.                                *)
(***************************************************************************)
\* what is emitted for s when the shaper gives up on the strings of unshapeable
EmittedText(s) == IF s \in out.unshapeable THEN s ELSE ShapedIfArabic(s)

\* the rows of table tbl show the columns of t, every cell on its own
CellsContained(tbl, t) ==
    \A j \in 1..Len(t) :
        /\ tbl.rows[1][j].text = EmittedText(t[j].name)
        /\ \A i \in 1..len(t) :
              tbl.rows[i + 1][j].text
                  = IF tbl.rows[i + 1][j].href # <<>> THEN EmittedText(LinkCaption)
                    ELSE EmittedText(IF isna(t[j].vals[i]) THEN <<>> ELSE str(t[j].vals[i]))

\* the column of t[j] reduced to its value of row i
CellAlone(t, j, i) == << [name |-> t[j].name, dtype |-> t[j].dtype, vals |-> <<t[j].vals[i]>>] >>

\* every cell of frame is what formatting its value alone gives, and text that
\* is no number is kept verbatim
FormatContained(frame, t, no_comma_cols) ==
    \A j \in 1..Len(t) : \A i \in 1..len(t) :
        /\ frame[j].vals[i]
              = _format_numbers_for_display(CellAlone(t, j, i), no_comma_cols)[1].vals[1]
        /\ (t[j].vals[i].k = "str" /\ ~IsNumber(t[j].vals[i])) =>
              frame[j].vals[i] = StrV(t[j].vals[i].s)

IsPdfCombinedCall == out.fn = "make_pdf_combined"

\* the kind of every flowable of a story, paragraphs by their style
KindsOf(elements) ==
    [k \in 1..Len(elements) |->
        IF elements[k].t = "Paragraph" THEN elements[k].style ELSE elements[k].t]

SectionKinds == <<"Sec", "Spacer", "Table">>

\* C14: the story of a combined document is the banner (if there is one) and
\* the document title once, then the summary section and the ledger section,
\* each a section title followed by its table, with one page break between
\* the two and none before the first or after the last; every table repeats
\* its first row as the header of each page.
C14_CombinedStoryOrder ==
    IsPdfCombinedCall =>
        /\ KindsOf(out.elements) \in
              { <<"Title", "Spacer">> \o SectionKinds \o <<"PageBreak">> \o SectionKinds,
                <<"Image", "Spacer", "Title", "Spacer">> \o SectionKinds \o <<"PageBreak">>
                    \o SectionKinds }
        /\ \A k \in 1..Len(out.elements) :
              out.elements[k].t = "Table" => out.elements[k].repeatRows = 1
        /\ LET n == Len(out.elements)
           IN  /\ out.elements[n - 6].text = EmittedText(SummarySectionTitle)
               /\ CellsContained(out.elements[n - 4], out.summary_df)
               /\ out.elements[n - 2].text = EmittedText(FlowSectionTitle)
               /\ CellsContained(out.elements[n], df)

\* a combined document with a banner, a one-row summary and a two-row ledger
C14_Witness ==
    /\ IsPdfCombinedCall
    /\ out.elements[1].t = "Image"
    /\ len(out.summary_df) = 1 /\ len(df) = 2
    /\ out.elements[8] = PageBreak
    /\ Len(out.elements[7].rows) = 2 /\ Len(out.elements[11].rows) = 3
    /\ out.elements[11].repeatRows = 1

(***************************************************************************)
(* Properties of the stacked sheet.                                        *)
(***************************************************************************)
IsStackedXlsxCall ==
    /\ out.fn = "make_excel_single_sheet_stacked"
    /\ out.engine = "xlsxwriter"
    /\ out.result = "bytes"

\* the row of the title of section n: the n-th merged row under the main title
RECURSIVE NthSmallest(_, _)
NthSmallest(rows, n) ==
    LET least == CHOOSE r \in rows : \A q \in rows : r <= q
    IN  IF n = 1 THEN least ELSE NthSmallest(rows \ {least}, n - 1)

SectionTitleRow(n) == NthSmallest({ m.row : m \in out.sheets[1].merges }, n + 1)

\* the last row of the table of section n
SectionLastRow(n) == NthSmallest({ tb.r1 : tb \in out.sheets[1].tables }, n)

\* C15: in the stacked sheet the sections follow one another in the given
\* order, and exactly one blank row lies between the last row of a section's
\* table and the title row of the next section.
C15_OneBlankRowBetweenSections ==
    IsStackedXlsxCall =>
        /\ \A n \in 1..Len(out.dfs) :
              \E m \in out.sheets[1].merges :
                  m.row = SectionTitleRow(n) /\ m.text = out.dfs[n].k
        /\ \A n \in 1..(Len(out.dfs) - 1) :
              SectionTitleRow(n + 1) - SectionLastRow(n) - 1 = 1

(***************************************************************************)
(* Tables without rows.                                                    *)
(***************************************************************************)
\* sheet ws holds the header of t, no other cell, and a positive width for
\* every column the xlsxwriter branch sizes
HeaderOnlySheet(ws, t) ==
    /\ \A j \in 1..Len(t) :
          \E x \in ws.cells : x.col = j - 1 /\ x.arg = StrV(t[j].name)
                               /\ x.fmt \in {"hdr_fmt", "pandas_header"}
    /\ \A x \in ws.cells : x.fmt \in {"hdr_fmt", "pandas_header"}
    /\ ws.via = "xlsxwriter" =>
          \A j \in 1..Len(t) : \E x \in ws.col_w : x.col = j - 1 /\ x.w > 0

\* table tbl of a story has the one header row of t and positive widths
HeaderOnlyTable(tbl, t) ==
    /\ Len(tbl.rows) = 1
    /\ Len(tbl.rows[1]) = Len(t)
    /\ Len(tbl.colWidths) = Len(t)
    /\ \A j \in 1..Len(t) : RatLt(RatInt(0), tbl.colWidths[j])

\* C16: a table with columns and no rows goes through every renderer without
\* an error, and comes out as its header row alone, every column with a
\* positive width.
C16_ZeroRowTables ==
    /\ (out.fn \in {"make_excel_bytes", "make_excel_combined_two_sheets"}
         /\ out.engine # "None") =>
          /\ out.result = "bytes"
          /\ \A n \in 1..Len(out.dfs) :
                len(out.dfs[n].v) = 0 => HeaderOnlySheet(out.sheets[n], out.dfs[n].v)
    /\ (out.fn = "make_excel_single_sheet_stacked" /\ out.engine # "None"
         /\ \A n \in 1..Len(out.dfs) : len(out.dfs[n].v) = 0) =>
          /\ out.result = "bytes"
          /\ out.engine = "xlsxwriter" =>
                /\ \A x \in out.sheets[1].cells : x.fmt = "hdr_fmt"
                /\ \A x \in out.sheets[1].col_w : x.w > 0
    /\ (IsPdfTableCall /\ len(df) = 0) =>
          /\ out.result \in {"bytes", "blocks"}
          /\ HeaderOnlyTable(TableOf(out.elements), df)
    /\ IsPdfCombinedCall =>
          /\ out.result = "bytes"
          /\ len(out.summary_df) = 0 =>
                HeaderOnlyTable(out.elements[Len(out.elements) - 4], out.summary_df)
          /\ len(df) = 0 => HeaderOnlyTable(TableOf(out.elements), df)
    /\ (IsFormatCall /\ len(df) = 0) =>
          /\ out.result = "frame"
          /\ Len(out.frame) = Len(df)
          /\ \A j \in 1..Len(df) :
                out.frame[j].name = df[j].name /\ out.frame[j].vals = <<>>

\* the same statement where the banner call does not keep raising
C16_ZeroRowTablesReadableBanner ==
    (out.fn \in {"make_excel_bytes", "make_excel_combined_two_sheets",
                 "make_excel_single_sheet_stacked"}
      => ~(out.asset.logo = "corrupt" /\ out.asset.raises = "always"))
    => C16_ZeroRowTables

(***************************************************************************)
(* The columns an export emits.                                            *)
(***************************************************************************)
\* row of sheet ws holds the names of the columns of t, in order, and no more
ShowsColumns(ws, row, t) ==
    /\ \A j \in 1..Len(t) :
          \E x \in ws.cells : x.row = row /\ x.col = j - 1 /\ x.arg = StrV(t[j].name)
                               /\ x.fmt \in {"hdr_fmt", "pandas_header"}
    /\ \A x \in ws.cells : x.row = row => x.col < Len(t)

\* the sheet that shows section n of a spreadsheet export
SheetOfSection(n) ==
    IF out.fn = "make_excel_single_sheet_stacked" THEN out.sheets[1] ELSE out.sheets[n]

SheetShowsSections ==
    \A n \in 1..Len(out.dfs) :
        \E x \in SheetOfSection(n).cells : ShowsColumns(SheetOfSection(n), x.row, out.dfs[n].v)

\* the header row of table tbl names the columns of t, in order, and no more
TableShowsColumns(tbl, t) ==
    /\ Len(tbl.rows[1]) = Len(t)
    /\ \A j \in 1..Len(t) : tbl.rows[1][j].text = EmittedText(t[j].name)
    /\ \A i \in 1..Len(tbl.rows) : Len(tbl.rows[i]) = Len(t)

\* C17: every export emits exactly the columns of the table it was given, in
\* the given order: no renderer adds, removes or reorders a column.
C17_ColumnsKept ==
    /\ (IsExcelCall /\ out.result = "bytes") => SheetShowsSections
    /\ IsFormatCall =>
          /\ Len(out.frame) = Len(df)
          /\ \A j \in 1..Len(df) : out.frame[j].name = df[j].name
    /\ IsPdfTableCall => TableShowsColumns(TableOf(out.elements), df)
    /\ IsPdfCombinedCall =>
          /\ TableShowsColumns(out.elements[Len(out.elements) - 4], out.summary_df)
          /\ TableShowsColumns(TableOf(out.elements), df)

\* the same statement for every export but the stacked sheet written by pandas
C17_ColumnsKeptButConcat ==
    ~(out.fn = "make_excel_single_sheet_stacked" /\ out.engine = "openpyxl")
    => C17_ColumnsKept

(***************************************************************************)
(* Font registration.                                                      *)
(***************************************************************************)
\* C18: the Arabic font is registered with the document engine at most once,
\* however often an export asks for it.
C18_RegisteredAtMostOnce ==
    (IsPdfTableCall \/ IsPdfCombinedCall) => out.registered <= 1

(***************************************************************************)
(* Agreement of the two paths on grouped numbers.                          *)
(***************************************************************************)
\* main() offered both the workbook of xlsxwriter and the PDF
OffersSheetAndPdf ==
    /\ out.fn = "main" /\ out.engine = "xlsxwriter"
    /\ Len(out.offered) = 3
    /\ out.offered[1].kind = "xlsx" /\ out.offered[3].kind = "pdf"

\* C19: in a column that is not exempt from grouping, the PDF shows a cell as
\* a grouped number with two decimals exactly when the sheet writes it as a
\* native number with the grouped-decimal format.
C19_SameGroupedCells ==
    OffersSheetAndPdf =>
        \A j \in 1..Len(df) : \A i \in 1..len(df) :
            ~Contains(_normalize_name(df[j].name), CheckHint) =>
                ( ( /\ TableOf(out.offered[3].data.elements).rows[i + 1][j].href = <<>>
                    /\ IsGroupedTwoDecimals(
                           TableOf(out.offered[3].data.elements).rows[i + 1][j].text) )
                  <=> ( /\ BodyCellOf(out.offered[1].data.sheets[1], i, j).op = "write_number"
                        /\ BodyCellOf(out.offered[1].data.sheets[1], i, j).fmt = "fmt_num" ) )

\* the same statement for the tables without digit-only text
C19_SameGroupedCellsButDigitText ==
    (\A j \in 1..Len(df) : \A i \in 1..len(df) : df[j].vals[i] # StrV(DigitsValue))
    => C19_SameGroupedCells

(***************************************************************************)
(* The tables handed to an export.                                         *)
(***************************************************************************)
\* a step that makes an export call: the record of the call appears in out
IsExportStep == out = NoExport /\ out' # NoExport

\* C20: no export changes the table it is given: after the call returns the
\* caller's table has the columns, rows and values it had before.
C20_InputUnchanged == [][IsExportStep => df' = df]_vars

\* the formatting returned '1,500.50' and the caller still holds 1500.5
C20_Witness ==
    /\ IsFormatCall
    /\ df[1].dtype = "float64" /\ df[1].vals = <<FloatV(150050)>>
    /\ out.frame[1].vals[1] = StrV(<<"1", ",", "5", "0", "0", ".", "5", "0">>)

(***************************************************************************)
(* Widths and alignment of the cells of the paginated table.               *)
(***************************************************************************)
\* column j of the table shows a link in every row
IsLinkColumn(j) ==
    /\ len(df) > 0
    /\ \A i \in 1..len(df) : PdfCellOf(i, j).href # <<>>

\* the desired width of a column whose longest text has n characters
WidthOfChars(n, max_col_width) == RatMin(RatMul(RatInt(n), Rat(64, 10)), RatInt(max_col_width))

\* C21: the desired width of a hyperlink column comes from the length of the
\* fixed link caption and of its header, not from the length of the URLs.
C21_LinkWidthFromCaption ==
    (out.fn = "_pdf_table" /\ out.avail_width = NoneWidth) =>
        \A j \in 1..Len(df) :
            IsLinkColumn(j) =>
                FittedWidths[j]
                    = WidthOfChars(IF Len(df[j].name) > Len(LinkCaption)
                                   THEN Len(df[j].name) ELSE Len(LinkCaption),
                                   out.max_col_width)

\* C22: the alignment of a cell follows its column: a hyperlink cell is
\* centred (1), and a text cell is right-aligned (2) under an Arabic header
\* and left-aligned (0) under any other, whatever the script of its value.
C22_AlignmentPerColumn ==
    IsPdfTableCall =>
        \A j \in 1..Len(df) : \A i \in 1..len(df) :
            StyleAlignment(PdfCellOf(i, j).style)
                = IF PdfCellOf(i, j).href # <<>> THEN 1
                  ELSE IF \E k \in 1..Len(df[j].name) : df[j].name[k] \in ArabicBlock THEN 2
                  ELSE 0

(***************************************************************************)
(* Null values on the PDF path.                                            *)
(***************************************************************************)
\* C23: a cell whose value is null (None, nan, NaT) is empty in the PDF that
\* main() builds from the formatted table, in every kind of column.
C23_NullShownEmpty ==
    (out.fn = "main" /\ out.offered # <<>>) =>
        \A j \in 1..Len(df) : \A i \in 1..len(df) :
            isna(df[j].vals[i]) =>
                /\ TableOf(out.offered[Len(out.offered)].data.elements).rows[i + 1][j].href = <<>>
                /\ TableOf(out.offered[Len(out.offered)].data.elements).rows[i + 1][j].text = <<>>

\* the same statement for the numeric columns
C23_NullShownEmptyInNumericColumns ==
    (out.fn = "main" /\ out.offered # <<>>) =>
        \A j \in 1..Len(df) : \A i \in 1..len(df) :
            (isna(df[j].vals[i]) /\ df[j].dtype = "float64") =>
                /\ TableOf(out.offered[Len(out.offered)].data.elements).rows[i + 1][j].href = <<>>
                /\ TableOf(out.offered[Len(out.offered)].data.elements).rows[i + 1][j].text = <<>>

====
